---- MODULE Spec2Model ----
(***************************************************************************)
(* The voice pathway of learning_page_logic/voice_server.py: one session   *)
(* of /api/ask (generate_audio).  Four sequential processes share two      *)
(* queues:                                                                 *)
(*   - the Text Producer      (thread stream_claude),                      *)
(*   - the Speech Producer    (thread stream_fish_tts),                    *)
(*   - the Token Buffer's iterator (TextStreamBuffer.__iter__, driven by   *)
(*     the speech SDK as the text source of ws_session.tts),               *)
(*   - the relay read loop    (the body of the generator generate_audio).  *)
(* Every step below is one statement (or one blocking call) of the source; *)
(* the interleavings of the steps are the schedules of the threads.        *)
(*                                                                         *)
(* Further specifications of the module, each over variables of its own    *)
(* and leaving the others untouched:                                       *)
(*   - SessionsSpec: two concurrent requests to /api/ask and the objects   *)
(*     each call of generate_audio creates;                                *)
(*   - TextOnlySpec: one request to /api/ask-text-only (generate_text);    *)
(*   - RenderSpec: one request to /v1/video/rendering of backend_server.py *)
(*     (render_animation_video and its generator generate);                *)
(*   - SamplesSpec: the class directories and lecture files of NOTES_DIR   *)
(*     (create_class, create_note of backend_server.py) and the sample     *)
(*     ids of api.py (list_samples, get_sample).                           *)
(***************************************************************************)
EXTENDS Integers, Sequences, FiniteSets, TLC

VARIABLES
    claudePc,     \* position of thread stream_claude
    fishPc,       \* position of thread stream_fish_tts
    iterPc,       \* position of TextStreamBuffer.__iter__
    relayPc,      \* position of the generator generate_audio
    bufq,         \* text_buffer.queue
    bufDone,      \* text_buffer.done
    audioq,       \* audio_queue: serialized event lines
    text_chunk,   \* stream_claude's loop variable
    full_text,    \* stream_claude's accumulated text
    audio_chunk,  \* stream_fish_tts's loop variable
    claudeErr,    \* str(e) of the exception caught in stream_claude, or None
    fishErr,      \* str(e) of the exception caught in stream_fish_tts, or None
    out,          \* the lines the generator has yielded to the client
    emitted,      \* history: the deltas the language model has emitted
    pushed,       \* history: the fragments put into text_buffer.queue
    yielded,      \* history: the fragments the iterator has yielded
    enq,          \* history: the lines put into audio_queue, in put order
    nAudio,       \* history: number of audio chunks received from the speech API
    iterStart     \* history: text_buffer.done as read by the iterator's first test

vars == <<claudePc, fishPc, iterPc, relayPc, bufq, bufDone, audioq, text_chunk,
          full_text, audio_chunk, claudeErr, fishErr, out, emitted, pushed,
          yielded, enq, nAudio, iterStart>>

\* Two concurrent requests to /api/ask (SessionsSpec).
VARIABLES
    sessPc,       \* per request: positions of its two threads, of the iterator
                  \* of its buffer and of its generator
    sessRef,      \* per request: the objects its locals text_buffer and
                  \* audio_queue are bound to
    buffers,      \* the TextStreamBuffer objects created so far
    queues,       \* the queue.Queue objects created as audio_queue so far
    sessEmitted,  \* history, per request: the deltas the model emitted for it
    sessYielded,  \* history, per request: the fragments its iterator yielded
    sessAudio,    \* history, per request: audio chunks its speech call returned
    sessOut       \* per request: the lines its generator has yielded

sessionVars == <<sessPc, sessRef, buffers, queues, sessEmitted, sessYielded,
                 sessAudio, sessOut>>

\* One request to /api/ask-text-only (TextOnlySpec).
VARIABLES
    textPc,       \* position of the generator generate_text
    textOut,      \* the lines generate_text has yielded to the client
    textEmitted,  \* history: the deltas the language model has emitted
    textErr       \* str(e) of the exception caught in generate_text, or None

textOnlyVars == <<textPc, textOut, textEmitted, textErr>>

\* One request to /v1/video/rendering (RenderSpec).
VARIABLES
    renderPc,     \* position of render_animation_video and of its generator
    stream,       \* data.get('stream', False)
    file_path,    \* the scene script of the request, or None
    files,        \* the files that exist in BASE_DIR
    returncode,   \* the exit status of manim, or None
    launched,     \* history: whether file_path existed when manim was started
    exitPath,     \* history: the path on which the handler left its try block
    rendered      \* the response body, or the lines the generator has yielded

renderVars == <<renderPc, stream, file_path, files, returncode, launched,
                exitPath, rendered>>

\* The notes directory and the sample endpoints (SamplesSpec).  A name is a
\* sequence of characters.
VARIABLES
    class_dirs,   \* the names of the class directories in NOTES_DIR
    html_files,   \* the lecture files in NOTES_DIR: <<class directory, stem>>
    samples,      \* the samples of the last answer of GET /api/v1/samples
    lecture       \* the outcome of the last GET /api/v1/samples/{id}

sampleVars == <<class_dirs, html_files, samples, lecture>>

\* The variables each specification leaves untouched.
notVoice == <<sessionVars, textOnlyVars, renderVars, sampleVars>>
notSessions == <<vars, textOnlyVars, renderVars, sampleVars>>
notTextOnly == <<vars, sessionVars, renderVars, sampleVars>>
notRender == <<vars, sessionVars, textOnlyVars, sampleVars>>
notSamples == <<vars, sessionVars, textOnlyVars, renderVars>>

-----------------------------------------------------------------------------
\* Bounds of the model.
MaxDeltas == 2      \* deltas the language model emits in one session
MaxAudio == 1       \* audio chunks the speech API returns in one session

None == "<none>"

\* The text deltas the model may emit; the empty delta is one of them.
Deltas == {"", "Hello", " world"}

\* Failure messages of the two vendor calls.
ClaudeErrors == {"rate_limit_error", "authentication_error"}
FishErrors == {"Unauthorized"}

\* Binary audio chunks the speech API may return (sequences of bytes).
AudioChunks == {<<1, 2>>}

-----------------------------------------------------------------------------
\* base64.b64encode(audio_chunk).decode('utf-8')

B64Alphabet ==
    <<"A","B","C","D","E","F","G","H","I","J","K","L","M","N","O","P",
      "Q","R","S","T","U","V","W","X","Y","Z","a","b","c","d","e","f",
      "g","h","i","j","k","l","m","n","o","p","q","r","s","t","u","v",
      "w","x","y","z","0","1","2","3","4","5","6","7","8","9","+","/">>

B64Char(n) == B64Alphabet[n + 1]

RECURSIVE B64Encode(_)
\* A variant of the encoding that leaves out the "=" padding.
B64Encode_NoPadding(bytes) ==
    IF Len(bytes) = 0 THEN ""
    ELSE IF Len(bytes) = 1 THEN
        B64Char(bytes[1] \div 4) \o B64Char((bytes[1] % 4) * 16)
    ELSE IF Len(bytes) = 2 THEN
        B64Char(bytes[1] \div 4)
        \o B64Char((bytes[1] % 4) * 16 + bytes[2] \div 16)
        \o B64Char((bytes[2] % 16) * 4)
    ELSE
        B64Char(bytes[1] \div 4)
        \o B64Char((bytes[1] % 4) * 16 + bytes[2] \div 16)
        \o B64Char((bytes[2] % 16) * 4 + bytes[3] \div 64)
        \o B64Char(bytes[3] % 64)
        \o B64Encode(SubSeq(bytes, 4, Len(bytes)))

B64Encode(bytes) ==
    IF Len(bytes) = 0 THEN ""
    ELSE IF Len(bytes) = 1 THEN
        B64Char(bytes[1] \div 4) \o B64Char((bytes[1] % 4) * 16) \o "=="
    ELSE IF Len(bytes) = 2 THEN
        B64Char(bytes[1] \div 4)
        \o B64Char((bytes[1] % 4) * 16 + bytes[2] \div 16)
        \o B64Char((bytes[2] % 16) * 4) \o "="
    ELSE
        B64Char(bytes[1] \div 4)
        \o B64Char((bytes[1] % 4) * 16 + bytes[2] \div 16)
        \o B64Char((bytes[2] % 16) * 4 + bytes[3] \div 64)
        \o B64Char(bytes[3] % 64)
        \o B64Encode(SubSeq(bytes, 4, Len(bytes)))

-----------------------------------------------------------------------------
\* json.dumps(obj) + '\n': the line put on the wire.  An event object is a
\* record with a "type" field and, except for 'done', a "content" field.
JsonDumps(obj) ==
    IF "content" \in DOMAIN obj
    THEN "{\"type\": \"" \o obj.type \o "\", \"content\": \"" \o obj.content
         \o "\"}\n"
    ELSE "{\"type\": \"" \o obj.type \o "\"}\n"

EventTypes == {"text", "audio", "error", "done"}

\* The content strings of the lines json.loads is applied to: the deltas,
\* the failure messages bare and prefixed, and the encoded audio chunks.
EventContents ==
    Deltas \cup ClaudeErrors \cup FishErrors
    \cup {"TTS Error: " \o m : m \in FishErrors}
    \cup {B64Encode(c) : c \in AudioChunks}

\* The objects whose serialization a session can produce.
EventObjects ==
    {[type |-> t, content |-> c] : t \in EventTypes, c \in EventContents}
    \cup {[type |-> t] : t \in EventTypes}

\* The serialization of every such object.
WireForm == [obj \in EventObjects |-> JsonDumps(obj)]

\* json.loads(line): the object the line serializes
JsonLoads(line) == CHOOSE obj \in EventObjects : WireForm[obj] = line

\* json.loads(chunk).get(key)
JsonGet(line, key) ==
    LET obj == JsonLoads(line)
    IN IF key \in DOMAIN obj THEN obj[key] ELSE None

TextEvent(c) == JsonDumps([type |-> "text", content |-> c])
AudioEvent(b) == JsonDumps([type |-> "audio", content |-> B64Encode(b)])
ClaudeErrorEvent(msg) == JsonDumps([type |-> "error", content |-> msg])
\* A variant of the speech error event without the "TTS Error: " prefix.
FishErrorEvent_NoPrefix(msg) == JsonDumps([type |-> "error", content |-> msg])

FishErrorEvent(msg) ==
    JsonDumps([type |-> "error", content |-> "TTS Error: " \o msg])
\* A variant of the completion event that carries an empty "content".
DoneEvent_WithContent == JsonDumps([type |-> "done", content |-> ""])

DoneEvent == JsonDumps([type |-> "done"])

\* A variant of the queue that holds one line at most (queue.Queue(maxsize=1)):
\* put blocks while the queue is full.
AudioQueuePut_Bounded(line) ==
    /\ Len(audioq) < 1
    /\ audioq' = Append(audioq, line)
    /\ enq' = Append(enq, line)

\* audio_queue.put(line)
AudioQueuePut(line) ==
    /\ audioq' = Append(audioq, line)
    /\ enq' = Append(enq, line)

-----------------------------------------------------------------------------
\* TextStreamBuffer

\* A variant of add() without the test of text: every delta is queued.
BufferAdd_Unguarded(text) ==
    /\ bufq' = Append(bufq, text)
    /\ pushed' = Append(pushed, text)

\* add(text): "if text: self.queue.put(text)"
BufferAdd(text) ==
    IF text # ""
    THEN /\ bufq' = Append(bufq, text)
         /\ pushed' = Append(pushed, text)
    ELSE UNCHANGED <<bufq, pushed>>

\* finish(): "self.done = True"
BufferFinish == bufDone' = TRUE

\* __iter__, "while not self.done ...": the test of self.done
IterCheckDone ==
    /\ iterPc = "check"
    /\ iterPc' = IF ~bufDone THEN "get" ELSE "check_empty"
    /\ iterStart' = IF iterStart = None
                    THEN (IF bufDone THEN "closed" ELSE "open")
                    ELSE iterStart
    /\ UNCHANGED <<claudePc, fishPc, relayPc, bufq, bufDone, audioq, text_chunk,
                   full_text, audio_chunk, claudeErr, fishErr, out, emitted,
                   pushed, yielded, enq, nAudio>>
    /\ UNCHANGED notVoice

\* A variant of the loop test that reads "while not self.done": the
\* iteration ends as soon as the buffer is closed.
IterCheckEmpty_DoneOnly ==
    /\ iterPc = "check_empty"
    /\ iterPc' = "ended"
    /\ UNCHANGED <<claudePc, fishPc, relayPc, bufq, bufDone, audioq, text_chunk,
                   full_text, audio_chunk, claudeErr, fishErr, out, emitted,
                   pushed, yielded, enq, nAudio, iterStart>>
    /\ UNCHANGED notVoice

\* __iter__, "... or not self.queue.empty()": reached when self.done was True
IterCheckEmpty ==
    /\ iterPc = "check_empty"
    /\ iterPc' = IF bufq # <<>> THEN "get" ELSE "ended"
    /\ UNCHANGED <<claudePc, fishPc, relayPc, bufq, bufDone, audioq, text_chunk,
                   full_text, audio_chunk, claudeErr, fishErr, out, emitted,
                   pushed, yielded, enq, nAudio, iterStart>>
    /\ UNCHANGED notVoice

\* A variant of the iterator that takes the newest fragment of the queue
\* (a LIFO queue in place of queue.Queue).
IterGet_Newest ==
    /\ iterPc = "get"
    /\ bufq # <<>>
    /\ yielded' = Append(yielded, bufq[Len(bufq)])
    /\ bufq' = SubSeq(bufq, 1, Len(bufq) - 1)
    /\ iterPc' = "check"
    /\ UNCHANGED <<claudePc, fishPc, relayPc, bufDone, audioq, text_chunk,
                   full_text, audio_chunk, claudeErr, fishErr, out, emitted,
                   pushed, enq, nAudio, iterStart>>
    /\ UNCHANGED notVoice

\* __iter__, "yield self.queue.get(timeout=0.1)" with an item available
IterGet ==
    /\ iterPc = "get"
    /\ bufq # <<>>
    /\ yielded' = Append(yielded, Head(bufq))
    /\ bufq' = Tail(bufq)
    /\ iterPc' = "check"
    /\ UNCHANGED <<claudePc, fishPc, relayPc, bufDone, audioq, text_chunk,
                   full_text, audio_chunk, claudeErr, fishErr, out, emitted,
                   pushed, enq, nAudio, iterStart>>
    /\ UNCHANGED notVoice

\* A variant of the iterator whose get has no timeout (self.queue.get()):
\* on an empty queue it blocks and never raises queue.Empty.
IterTimeout_Blocking ==
    /\ iterPc = "get"
    /\ bufq = <<>>
    /\ FALSE
    /\ UNCHANGED vars
    /\ UNCHANGED notVoice

\* __iter__, queue.get(timeout=0.1) raising queue.Empty
IterTimeout ==
    /\ iterPc = "get"
    /\ bufq = <<>>
    /\ iterPc' = "empty"
    /\ UNCHANGED <<claudePc, fishPc, relayPc, bufq, bufDone, audioq, text_chunk,
                   full_text, audio_chunk, claudeErr, fishErr, out, emitted,
                   pushed, yielded, enq, nAudio, iterStart>>
    /\ UNCHANGED notVoice

\* A variant of the handler that always continues: "except queue.Empty:
\* continue".
IterExcept_Continue ==
    /\ iterPc = "empty"
    /\ iterPc' = "check"
    /\ UNCHANGED <<claudePc, fishPc, relayPc, bufq, bufDone, audioq, text_chunk,
                   full_text, audio_chunk, claudeErr, fishErr, out, emitted,
                   pushed, yielded, enq, nAudio, iterStart>>
    /\ UNCHANGED notVoice

\* A variant of the handler that always breaks: "except queue.Empty: break".
IterExcept_Break ==
    /\ iterPc = "empty"
    /\ iterPc' = "ended"
    /\ UNCHANGED <<claudePc, fishPc, relayPc, bufq, bufDone, audioq, text_chunk,
                   full_text, audio_chunk, claudeErr, fishErr, out, emitted,
                   pushed, yielded, enq, nAudio, iterStart>>
    /\ UNCHANGED notVoice

\* __iter__, "except queue.Empty: if self.done: break / continue"
IterExcept ==
    /\ iterPc = "empty"
    /\ iterPc' = IF bufDone THEN "ended" ELSE "check"
    /\ UNCHANGED <<claudePc, fishPc, relayPc, bufq, bufDone, audioq, text_chunk,
                   full_text, audio_chunk, claudeErr, fishErr, out, emitted,
                   pushed, yielded, enq, nAudio, iterStart>>
    /\ UNCHANGED notVoice

IterNext ==
    \/ IterCheckDone
    \/ IterCheckEmpty
    \/ IterGet
    \/ IterTimeout
    \/ IterExcept

-----------------------------------------------------------------------------
\* stream_claude

\* "for text_chunk in stream.text_stream": the model emits one more delta;
\* "full_text += text_chunk"
ClaudeChunk ==
    /\ claudePc = "stream"
    /\ Len(emitted) < MaxDeltas
    /\ \E t \in Deltas :
        /\ text_chunk' = t
        /\ emitted' = Append(emitted, t)
        /\ full_text' = full_text \o t
    /\ claudePc' = "add"
    /\ UNCHANGED <<fishPc, iterPc, relayPc, bufq, bufDone, audioq, audio_chunk,
                   claudeErr, fishErr, out, pushed, yielded, enq, nAudio,
                   iterStart>>
    /\ UNCHANGED notVoice

\* "text_buffer.add(text_chunk)"
ClaudeAdd ==
    /\ claudePc = "add"
    /\ BufferAdd(text_chunk)
    /\ claudePc' = "put"
    /\ UNCHANGED <<fishPc, iterPc, relayPc, bufDone, audioq, text_chunk,
                   full_text, audio_chunk, claudeErr, fishErr, out, emitted,
                   yielded, enq, nAudio, iterStart>>
    /\ UNCHANGED notVoice

\* A variant of the per-chunk body that enqueues a 'text' event only for a
\* non-empty delta ("if text_chunk:" around the put).
ClaudePutText_SkipEmpty ==
    /\ claudePc = "put"
    /\ IF text_chunk # ""
       THEN AudioQueuePut(TextEvent(text_chunk))
       ELSE UNCHANGED <<audioq, enq>>
    /\ claudePc' = "stream"
    /\ UNCHANGED <<fishPc, iterPc, relayPc, bufq, bufDone, text_chunk,
                   full_text, audio_chunk, claudeErr, fishErr, out, emitted,
                   pushed, yielded, nAudio, iterStart>>
    /\ UNCHANGED notVoice

\* "audio_queue.put(json.dumps({'type': 'text', 'content': text_chunk}) + '\n')"
ClaudePutText ==
    /\ claudePc = "put"
    /\ AudioQueuePut(TextEvent(text_chunk))
    /\ claudePc' = "stream"
    /\ UNCHANGED <<fishPc, iterPc, relayPc, bufq, bufDone, text_chunk,
                   full_text, audio_chunk, claudeErr, fishErr, out, emitted,
                   pushed, yielded, nAudio, iterStart>>
    /\ UNCHANGED notVoice

\* the text stream is exhausted: the for loop and the with block exit
ClaudeEnd ==
    /\ claudePc = "stream"
    /\ claudePc' = "finish"
    /\ UNCHANGED <<fishPc, iterPc, relayPc, bufq, bufDone, audioq, text_chunk,
                   full_text, audio_chunk, claudeErr, fishErr, out, emitted,
                   pushed, yielded, enq, nAudio, iterStart>>
    /\ UNCHANGED notVoice

\* "text_buffer.finish()" on normal completion; the thread then returns
ClaudeFinish ==
    /\ claudePc = "finish"
    /\ BufferFinish
    /\ claudePc' = "dead"
    /\ UNCHANGED <<fishPc, iterPc, relayPc, bufq, audioq, text_chunk,
                   full_text, audio_chunk, claudeErr, fishErr, out, emitted,
                   pushed, yielded, enq, nAudio, iterStart>>
    /\ UNCHANGED notVoice

\* the language-model call raises (on opening the stream or while reading
\* it): "except Exception as e"
ClaudeFail ==
    /\ claudePc = "stream"
    /\ \E msg \in ClaudeErrors : claudeErr' = msg
    /\ claudePc' = "exc_finish"
    /\ UNCHANGED <<fishPc, iterPc, relayPc, bufq, bufDone, audioq, text_chunk,
                   full_text, audio_chunk, fishErr, out, emitted, pushed,
                   yielded, enq, nAudio, iterStart>>
    /\ UNCHANGED notVoice

\* A variant of the except branch that does not close the buffer.
ClaudeExcFinish_NoClose ==
    /\ claudePc = "exc_finish"
    /\ claudePc' = "exc_put"
    /\ UNCHANGED <<fishPc, iterPc, relayPc, bufq, bufDone, audioq, text_chunk,
                   full_text, audio_chunk, claudeErr, fishErr, out, emitted,
                   pushed, yielded, enq, nAudio, iterStart>>
    /\ UNCHANGED notVoice

\* except branch: "text_buffer.finish()"
ClaudeExcFinish ==
    /\ claudePc = "exc_finish"
    /\ BufferFinish
    /\ claudePc' = "exc_put"
    /\ UNCHANGED <<fishPc, iterPc, relayPc, bufq, audioq, text_chunk,
                   full_text, audio_chunk, claudeErr, fishErr, out, emitted,
                   pushed, yielded, enq, nAudio, iterStart>>
    /\ UNCHANGED notVoice

\* except branch: "audio_queue.put(json.dumps({'type': 'error',
\* 'content': str(e)}) + '\n')"; the thread then returns
ClaudeExcPut ==
    /\ claudePc = "exc_put"
    /\ AudioQueuePut(ClaudeErrorEvent(claudeErr))
    /\ claudePc' = "dead"
    /\ UNCHANGED <<fishPc, iterPc, relayPc, bufq, bufDone, text_chunk,
                   full_text, audio_chunk, claudeErr, fishErr, out, emitted,
                   pushed, yielded, nAudio, iterStart>>
    /\ UNCHANGED notVoice

\* the language-model call never returns
ClaudeHang ==
    /\ claudePc = "stream"
    /\ claudePc' = "hung"
    /\ UNCHANGED <<fishPc, iterPc, relayPc, bufq, bufDone, audioq, text_chunk,
                   full_text, audio_chunk, claudeErr, fishErr, out, emitted,
                   pushed, yielded, enq, nAudio, iterStart>>
    /\ UNCHANGED notVoice

ClaudeNext ==
    \/ ClaudeChunk
    \/ ClaudeAdd
    \/ ClaudePutText
    \/ ClaudeEnd
    \/ ClaudeFinish
    \/ ClaudeFail
    \/ ClaudeExcFinish
    \/ ClaudeExcPut
    \/ ClaudeHang

-----------------------------------------------------------------------------
\* stream_fish_tts

\* "ws_session = WebSocketSession(FISH_API_KEY)", "with ws_session:" and the
\* first step of ws_session.tts(TTSRequest(text=""), text_buffer): the
\* session opens and the SDK begins to iterate text_buffer as its text source
FishOpen ==
    /\ fishPc = "open"
    /\ fishPc' = "tts"
    /\ iterPc' = "check"
    /\ UNCHANGED <<claudePc, relayPc, bufq, bufDone, audioq, text_chunk,
                   full_text, audio_chunk, claudeErr, fishErr, out, emitted,
                   pushed, yielded, enq, nAudio, iterStart>>
    /\ UNCHANGED notVoice

\* opening the session raises (bad credentials): "except Exception as e"
FishOpenFail ==
    /\ fishPc = "open"
    /\ \E msg \in FishErrors : fishErr' = msg
    /\ fishPc' = "exc_put"
    /\ UNCHANGED <<claudePc, iterPc, relayPc, bufq, bufDone, audioq, text_chunk,
                   full_text, audio_chunk, claudeErr, out, emitted, pushed,
                   yielded, enq, nAudio, iterStart>>
    /\ UNCHANGED notVoice

\* "for audio_chunk in ws_session.tts(...)": one more audio chunk arrives
FishAudio ==
    /\ fishPc = "tts"
    /\ nAudio < MaxAudio
    /\ \E c \in AudioChunks : audio_chunk' = c
    /\ nAudio' = nAudio + 1
    /\ fishPc' = "audio_put"
    /\ UNCHANGED <<claudePc, iterPc, relayPc, bufq, bufDone, audioq, text_chunk,
                   full_text, claudeErr, fishErr, out, emitted, pushed,
                   yielded, enq, iterStart>>
    /\ UNCHANGED notVoice

\* "audio_b64 = base64.b64encode(audio_chunk).decode('utf-8')" and
\* "audio_queue.put(json.dumps({'type': 'audio', 'content': audio_b64}) + '\n')"
FishPutAudio ==
    /\ fishPc = "audio_put"
    /\ AudioQueuePut(AudioEvent(audio_chunk))
    /\ fishPc' = "tts"
    /\ UNCHANGED <<claudePc, iterPc, relayPc, bufq, bufDone, text_chunk,
                   full_text, audio_chunk, claudeErr, fishErr, out, emitted,
                   pushed, yielded, nAudio, iterStart>>
    /\ UNCHANGED notVoice

\* the audio stream ends normally: the speech API closes its stream once its
\* text source, the iteration of text_buffer, has ended
FishEnd ==
    /\ fishPc = "tts"
    /\ iterPc = "ended"
    /\ fishPc' = "done_put"
    /\ UNCHANGED <<claudePc, iterPc, relayPc, bufq, bufDone, audioq, text_chunk,
                   full_text, audio_chunk, claudeErr, fishErr, out, emitted,
                   pushed, yielded, enq, nAudio, iterStart>>
    /\ UNCHANGED notVoice

\* "audio_queue.put(json.dumps({'type': 'done'}) + '\n')"; the thread returns
FishPutDone ==
    /\ fishPc = "done_put"
    /\ AudioQueuePut(DoneEvent)
    /\ fishPc' = "dead"
    /\ UNCHANGED <<claudePc, iterPc, relayPc, bufq, bufDone, text_chunk,
                   full_text, audio_chunk, claudeErr, fishErr, out, emitted,
                   pushed, yielded, nAudio, iterStart>>
    /\ UNCHANGED notVoice

\* the speech session raises while streaming (connection drop): the with
\* block closes the session, which ends the SDK's reading of text_buffer
FishFail ==
    /\ fishPc = "tts"
    /\ \E msg \in FishErrors : fishErr' = msg
    /\ fishPc' = "exc_put"
    /\ iterPc' = IF iterPc = "ended" THEN "ended" ELSE "abandoned"
    /\ UNCHANGED <<claudePc, relayPc, bufq, bufDone, audioq, text_chunk,
                   full_text, audio_chunk, claudeErr, out, emitted, pushed,
                   yielded, enq, nAudio, iterStart>>
    /\ UNCHANGED notVoice

\* A variant of the except branch that falls through to the 'done' event
\* after the 'error' event.
FishExcPut_ThenDone ==
    /\ fishPc = "exc_put"
    /\ AudioQueuePut(FishErrorEvent(fishErr))
    /\ fishPc' = "done_put"
    /\ UNCHANGED <<claudePc, iterPc, relayPc, bufq, bufDone, text_chunk,
                   full_text, audio_chunk, claudeErr, fishErr, out, emitted,
                   pushed, yielded, nAudio, iterStart>>
    /\ UNCHANGED notVoice

\* except branch: "audio_queue.put(json.dumps({'type': 'error',
\* 'content': f"TTS Error: {str(e)}"}) + '\n')"; the thread returns
FishExcPut ==
    /\ fishPc = "exc_put"
    /\ AudioQueuePut(FishErrorEvent(fishErr))
    /\ fishPc' = "dead"
    /\ UNCHANGED <<claudePc, iterPc, relayPc, bufq, bufDone, text_chunk,
                   full_text, audio_chunk, claudeErr, fishErr, out, emitted,
                   pushed, yielded, nAudio, iterStart>>
    /\ UNCHANGED notVoice

\* the speech call never returns
FishHang ==
    /\ fishPc = "tts"
    /\ fishPc' = "hung"
    /\ UNCHANGED <<claudePc, iterPc, relayPc, bufq, bufDone, audioq, text_chunk,
                   full_text, audio_chunk, claudeErr, fishErr, out, emitted,
                   pushed, yielded, enq, nAudio, iterStart>>
    /\ UNCHANGED notVoice

FishNext ==
    \/ FishOpen
    \/ FishOpenFail
    \/ FishAudio
    \/ FishPutAudio
    \/ FishEnd
    \/ FishPutDone
    \/ FishFail
    \/ FishExcPut
    \/ FishHang

-----------------------------------------------------------------------------
\* generate_audio: thread start, read loop, join

\* A variant of is_alive() that reports a thread dead as soon as it has
\* reached its last statement, before that statement has run.
IsAlive_UntilLastStatement(pc) == pc \notin {"dead", "exc_put", "done_put"}

\* threading.Thread.is_alive()
IsAlive(pc) == pc # "dead"

\* "claude_thread.start()", "fish_thread.start()"
RelayStart ==
    /\ relayPc = "init"
    /\ claudePc' = "stream"
    /\ fishPc' = "open"
    /\ relayPc' = "get"
    /\ UNCHANGED <<iterPc, bufq, bufDone, audioq, text_chunk, full_text,
                   audio_chunk, claudeErr, fishErr, out, emitted, pushed,
                   yielded, enq, nAudio, iterStart>>
    /\ UNCHANGED notVoice

\* A variant of the read loop that takes the newest line of the queue
\* (a LIFO queue in place of queue.Queue).
RelayGet_Newest ==
    /\ relayPc = "get"
    /\ audioq # <<>>
    /\ out' = Append(out, audioq[Len(audioq)])
    /\ audioq' = SubSeq(audioq, 1, Len(audioq) - 1)
    /\ relayPc' = "yield"
    /\ UNCHANGED <<claudePc, fishPc, iterPc, bufq, bufDone, text_chunk,
                   full_text, audio_chunk, claudeErr, fishErr, emitted, pushed,
                   yielded, enq, nAudio, iterStart>>
    /\ UNCHANGED notVoice

\* "chunk = audio_queue.get(timeout=0.1)" with a line available, "yield chunk"
RelayGet ==
    /\ relayPc = "get"
    /\ audioq # <<>>
    /\ out' = Append(out, Head(audioq))
    /\ audioq' = Tail(audioq)
    /\ relayPc' = "yield"
    /\ UNCHANGED <<claudePc, fishPc, iterPc, bufq, bufDone, text_chunk,
                   full_text, audio_chunk, claudeErr, fishErr, emitted, pushed,
                   yielded, enq, nAudio, iterStart>>
    /\ UNCHANGED notVoice

\* A variant of the read loop without the test for 'done'.
RelayResume_NoBreak ==
    /\ relayPc = "yield"
    /\ relayPc' = "get"
    /\ UNCHANGED <<claudePc, fishPc, iterPc, bufq, bufDone, audioq, text_chunk,
                   full_text, audio_chunk, claudeErr, fishErr, out, emitted,
                   pushed, yielded, enq, nAudio, iterStart>>
    /\ UNCHANGED notVoice

\* the generator is resumed after the yield: "chunk_data = json.loads(chunk)",
\* "if chunk_data.get('type') == 'done': break"
RelayResume ==
    /\ relayPc = "yield"
    /\ relayPc' = IF JsonGet(out[Len(out)], "type") = "done"
                  THEN "join_claude" ELSE "get"
    /\ UNCHANGED <<claudePc, fishPc, iterPc, bufq, bufDone, audioq, text_chunk,
                   full_text, audio_chunk, claudeErr, fishErr, out, emitted,
                   pushed, yielded, enq, nAudio, iterStart>>
    /\ UNCHANGED notVoice

\* the client disconnects: the response generator is closed while suspended
\* at "yield chunk"
ClientDisconnect ==
    /\ relayPc = "yield"
    /\ relayPc' = "closed"
    /\ UNCHANGED <<claudePc, fishPc, iterPc, bufq, bufDone, audioq, text_chunk,
                   full_text, audio_chunk, claudeErr, fishErr, out, emitted,
                   pushed, yielded, enq, nAudio, iterStart>>
    /\ UNCHANGED notVoice

\* audio_queue.get(timeout=0.1) raising queue.Empty
RelayTimeout ==
    /\ relayPc = "get"
    /\ audioq = <<>>
    /\ relayPc' = "empty"
    /\ UNCHANGED <<claudePc, fishPc, iterPc, bufq, bufDone, audioq, text_chunk,
                   full_text, audio_chunk, claudeErr, fishErr, out, emitted,
                   pushed, yielded, enq, nAudio, iterStart>>
    /\ UNCHANGED notVoice

\* A variant of the liveness test with "or" in place of "and".
RelayCheckAlive_Either ==
    /\ relayPc = "empty"
    /\ relayPc' = IF ~IsAlive(claudePc) \/ ~IsAlive(fishPc)
                  THEN "check_empty" ELSE "get"
    /\ UNCHANGED <<claudePc, fishPc, iterPc, bufq, bufDone, audioq, text_chunk,
                   full_text, audio_chunk, claudeErr, fishErr, out, emitted,
                   pushed, yielded, enq, nAudio, iterStart>>
    /\ UNCHANGED notVoice

\* "if not claude_thread.is_alive() and not fish_thread.is_alive():"
RelayCheckAlive ==
    /\ relayPc = "empty"
    /\ relayPc' = IF ~IsAlive(claudePc) /\ ~IsAlive(fishPc)
                  THEN "check_empty" ELSE "get"
    /\ UNCHANGED <<claudePc, fishPc, iterPc, bufq, bufDone, audioq, text_chunk,
                   full_text, audio_chunk, claudeErr, fishErr, out, emitted,
                   pushed, yielded, enq, nAudio, iterStart>>
    /\ UNCHANGED notVoice

\* A variant of the timeout branch without the test of the queue: the loop
\* is left as soon as both threads are found dead.
RelayCheckEmpty_NoTest ==
    /\ relayPc = "check_empty"
    /\ relayPc' = "join_claude"
    /\ UNCHANGED <<claudePc, fishPc, iterPc, bufq, bufDone, audioq, text_chunk,
                   full_text, audio_chunk, claudeErr, fishErr, out, emitted,
                   pushed, yielded, enq, nAudio, iterStart>>
    /\ UNCHANGED notVoice

\* "if audio_queue.empty(): break", else "continue"
RelayCheckEmpty ==
    /\ relayPc = "check_empty"
    /\ relayPc' = IF audioq = <<>> THEN "join_claude" ELSE "get"
    /\ UNCHANGED <<claudePc, fishPc, iterPc, bufq, bufDone, audioq, text_chunk,
                   full_text, audio_chunk, claudeErr, fishErr, out, emitted,
                   pushed, yielded, enq, nAudio, iterStart>>
    /\ UNCHANGED notVoice

\* "claude_thread.join(timeout=5)": returns when the thread has ended or
\* when the five seconds have passed
RelayJoinClaude ==
    /\ relayPc = "join_claude"
    /\ relayPc' = "join_fish"
    /\ UNCHANGED <<claudePc, fishPc, iterPc, bufq, bufDone, audioq, text_chunk,
                   full_text, audio_chunk, claudeErr, fishErr, out, emitted,
                   pushed, yielded, enq, nAudio, iterStart>>
    /\ UNCHANGED notVoice

\* "fish_thread.join(timeout=5)"; the generator then returns
RelayJoinFish ==
    /\ relayPc = "join_fish"
    /\ relayPc' = "ended"
    /\ UNCHANGED <<claudePc, fishPc, iterPc, bufq, bufDone, audioq, text_chunk,
                   full_text, audio_chunk, claudeErr, fishErr, out, emitted,
                   pushed, yielded, enq, nAudio, iterStart>>
    /\ UNCHANGED notVoice

RelayNext ==
    \/ RelayStart
    \/ RelayGet
    \/ RelayResume
    \/ RelayTimeout
    \/ RelayCheckAlive
    \/ RelayCheckEmpty
    \/ RelayJoinClaude
    \/ RelayJoinFish

-----------------------------------------------------------------------------
\* The requests to /api/ask: two clients asking at the same time.
Sessions == {1, 2}

\* No request has arrived: no object has been created.
SessionsIdle ==
    /\ sessPc = [s \in Sessions |->
                    [claude |-> "idle", fish |-> "idle", iter |-> "idle",
                     relay |-> "new"]]
    /\ sessRef = [s \in Sessions |-> [text_buffer |-> 0, audio_queue |-> 0]]
    /\ buffers = <<>>
    /\ queues = <<>>
    /\ sessEmitted = [s \in Sessions |-> <<>>]
    /\ sessYielded = [s \in Sessions |-> <<>>]
    /\ sessAudio = [s \in Sessions |-> 0]
    /\ sessOut = [s \in Sessions |-> <<>>]

\* No request to /api/ask-text-only has arrived.
TextOnlyIdle ==
    /\ textPc = "new"
    /\ textOut = <<>>
    /\ textEmitted = <<>>
    /\ textErr = None

\* No request to /v1/video/rendering has arrived.
RenderIdle ==
    /\ renderPc = "new"
    /\ stream = FALSE
    /\ file_path = None
    /\ files = {}
    /\ returncode = None
    /\ launched = None
    /\ exitPath = None
    /\ rendered = <<>>

\* NOTES_DIR holds no class directory and no sample was asked for.
SamplesIdle ==
    /\ class_dirs = {}
    /\ html_files = {}
    /\ samples = {}
    /\ lecture = [status |-> 0]

\* generate_audio before its first statement has run:
\* "text_buffer = TextStreamBuffer()", "audio_queue = queue.Queue()"
Init ==
    /\ claudePc = "idle"
    /\ fishPc = "idle"
    /\ iterPc = "idle"
    /\ relayPc = "init"
    /\ bufq = <<>>
    /\ bufDone = FALSE
    /\ audioq = <<>>
    /\ text_chunk = None
    /\ full_text = ""
    /\ audio_chunk = <<>>
    /\ claudeErr = None
    /\ fishErr = None
    /\ out = <<>>
    /\ emitted = <<>>
    /\ pushed = <<>>
    /\ yielded = <<>>
    /\ enq = <<>>
    /\ nAudio = 0
    /\ iterStart = None
    /\ SessionsIdle
    /\ TextOnlyIdle
    /\ RenderIdle
    /\ SamplesIdle

Next ==
    \/ ClaudeNext
    \/ FishNext
    \/ IterNext
    \/ RelayNext
    \/ ClientDisconnect

Spec == Init /\ [][Next]_vars

\* Every thread that can take a step eventually takes one: the operating
\* system schedules each runnable thread, every timed wait (0.1 s on either
\* queue, 5 s on either join) expires, and the client keeps reading the
\* response unless it disconnects.
FairSpec ==
    /\ Spec
    /\ WF_vars(ClaudeNext)
    /\ WF_vars(FishNext)
    /\ WF_vars(IterNext)
    /\ WF_vars(RelayNext)

\* The scheduling of the speech thread alone: the iterator and the thread's
\* own statements run when they can (every timed wait on the Token Buffer
\* expires, every put returns), and the speech API ends its audio stream once
\* its text source has ended.  Nothing is assumed of the other threads, and
\* the vendor is not required to send audio, to fail or to hang.
SpeechFairSpec ==
    /\ Spec
    /\ WF_vars(IterNext)
    /\ WF_vars(FishOpen \/ FishPutAudio \/ FishPutDone \/ FishExcPut)
    /\ WF_vars(FishEnd)

-----------------------------------------------------------------------------
\* Two concurrent requests to /api/ask.  Each request runs generate_audio,
\* whose first statements create the request's TextStreamBuffer and queue;
\* the threads and the read loop of the request reach these objects through
\* the locals text_buffer and audio_queue of that call.  The steps are those
\* of the single-session specification taken a statement group at a time.

\* Bounds of the two-request specification.
MaxSessionDeltas == 2   \* deltas the model emits for one request
MaxSessionAudio == 1    \* audio chunks the speech API returns for one request

\* The deltas the model streams in answer to each request: the two questions
\* differ, and so do the answers.
AnswerDeltas(s) == IF s = 1 THEN {"Hello"} ELSE {" world"}

\* TextStreamBuffer.__init__: "self.queue = queue.Queue()", "self.done = False"
NewBuffer == [queue |-> <<>>, done |-> FALSE]

\* A variant of the first statements of generate_audio in which the buffer
\* and the queue are module-level objects, created once and used by every
\* request.
SessBegin_ModuleObjects(s) ==
    /\ sessPc[s].relay = "new"
    /\ buffers' = IF buffers = <<>> THEN <<NewBuffer>> ELSE buffers
    /\ queues' = IF queues = <<>> THEN << <<>> >> ELSE queues
    /\ sessRef' = [sessRef EXCEPT ![s] = [text_buffer |-> 1, audio_queue |-> 1]]
    /\ sessPc' = [sessPc EXCEPT ![s] = [claude |-> "stream", fish |-> "tts",
                                         iter |-> "running", relay |-> "loop"]]
    /\ UNCHANGED <<sessEmitted, sessYielded, sessAudio, sessOut>>
    /\ UNCHANGED notSessions

\* The generator of request s starts: "text_buffer = TextStreamBuffer()",
\* "audio_queue = queue.Queue()" create two new objects, and the two threads
\* are started
SessBegin(s) ==
    /\ sessPc[s].relay = "new"
    /\ buffers' = Append(buffers, NewBuffer)
    /\ queues' = Append(queues, <<>>)
    /\ sessRef' = [sessRef EXCEPT ![s] = [text_buffer |-> Len(buffers) + 1,
                                           audio_queue |-> Len(queues) + 1]]
    /\ sessPc' = [sessPc EXCEPT ![s] = [claude |-> "stream", fish |-> "tts",
                                         iter |-> "running", relay |-> "loop"]]
    /\ UNCHANGED <<sessEmitted, sessYielded, sessAudio, sessOut>>
    /\ UNCHANGED notSessions

\* stream_claude of request s, one pass of its loop: "text_buffer.add(
\* text_chunk)" and "audio_queue.put(json.dumps({'type': 'text', ...}))"
SessChunk(s) ==
    /\ sessPc[s].claude = "stream"
    /\ Len(sessEmitted[s]) < MaxSessionDeltas
    /\ \E t \in AnswerDeltas(s) :
        /\ sessEmitted' = [sessEmitted EXCEPT ![s] = Append(@, t)]
        /\ buffers' = [buffers EXCEPT ![sessRef[s].text_buffer].queue =
                            IF t # "" THEN Append(@, t) ELSE @]
        /\ queues' = [queues EXCEPT ![sessRef[s].audio_queue] =
                            Append(@, TextEvent(t))]
    /\ UNCHANGED <<sessPc, sessRef, sessYielded, sessAudio, sessOut>>
    /\ UNCHANGED notSessions

\* stream_claude of request s: "text_buffer.finish()"; the thread returns
SessFinish(s) ==
    /\ sessPc[s].claude = "stream"
    /\ buffers' = [buffers EXCEPT ![sessRef[s].text_buffer].done = TRUE]
    /\ sessPc' = [sessPc EXCEPT ![s].claude = "dead"]
    /\ UNCHANGED <<sessRef, queues, sessEmitted, sessYielded, sessAudio,
                   sessOut>>
    /\ UNCHANGED notSessions

\* __iter__ on the buffer of request s: "yield self.queue.get(timeout=0.1)"
SessIterGet(s) ==
    /\ sessPc[s].iter = "running"
    /\ buffers[sessRef[s].text_buffer].queue # <<>>
    /\ sessYielded' = [sessYielded EXCEPT ![s] =
                          Append(@, Head(buffers[sessRef[s].text_buffer].queue))]
    /\ buffers' = [buffers EXCEPT ![sessRef[s].text_buffer].queue = Tail(@)]
    /\ UNCHANGED <<sessPc, sessRef, queues, sessEmitted, sessAudio, sessOut>>
    /\ UNCHANGED notSessions

\* __iter__ on the buffer of request s: the loop is left, self.done being
\* True and the queue empty
SessIterEnd(s) ==
    /\ sessPc[s].iter = "running"
    /\ buffers[sessRef[s].text_buffer].done
    /\ buffers[sessRef[s].text_buffer].queue = <<>>
    /\ sessPc' = [sessPc EXCEPT ![s].iter = "ended"]
    /\ UNCHANGED <<sessRef, buffers, queues, sessEmitted, sessYielded,
                   sessAudio, sessOut>>
    /\ UNCHANGED notSessions

\* stream_fish_tts of request s: an audio chunk arrives and is put on
\* audio_queue as an 'audio' event
SessAudio(s) ==
    /\ sessPc[s].fish = "tts"
    /\ sessAudio[s] < MaxSessionAudio
    /\ \E c \in AudioChunks :
        queues' = [queues EXCEPT ![sessRef[s].audio_queue] =
                      Append(@, AudioEvent(c))]
    /\ sessAudio' = [sessAudio EXCEPT ![s] = @ + 1]
    /\ UNCHANGED <<sessPc, sessRef, buffers, sessEmitted, sessYielded, sessOut>>
    /\ UNCHANGED notSessions

\* stream_fish_tts of request s: the audio stream ends, its text source
\* having ended; "audio_queue.put(json.dumps({'type': 'done'}) + '\n')"
SessDone(s) ==
    /\ sessPc[s].fish = "tts"
    /\ sessPc[s].iter = "ended"
    /\ queues' = [queues EXCEPT ![sessRef[s].audio_queue] = Append(@, DoneEvent)]
    /\ sessPc' = [sessPc EXCEPT ![s].fish = "dead"]
    /\ UNCHANGED <<sessRef, buffers, sessEmitted, sessYielded, sessAudio,
                   sessOut>>
    /\ UNCHANGED notSessions

\* stream_fish_tts of request s raises: the except branch puts the
\* 'TTS Error' event and the thread returns
SessFishFail(s) ==
    /\ sessPc[s].fish = "tts"
    /\ \E msg \in FishErrors :
        queues' = [queues EXCEPT ![sessRef[s].audio_queue] =
                      Append(@, FishErrorEvent(msg))]
    /\ sessPc' = [sessPc EXCEPT ![s].fish = "dead",
                                 ![s].iter = IF @ = "ended" THEN "ended"
                                             ELSE "abandoned"]
    /\ UNCHANGED <<sessRef, buffers, sessEmitted, sessYielded, sessAudio,
                   sessOut>>
    /\ UNCHANGED notSessions

\* read loop of request s: "chunk = audio_queue.get(timeout=0.1)", "yield
\* chunk", and the break on 'done'
SessRelayGet(s) ==
    /\ sessPc[s].relay = "loop"
    /\ queues[sessRef[s].audio_queue] # <<>>
    /\ LET chunk == Head(queues[sessRef[s].audio_queue])
       IN /\ sessOut' = [sessOut EXCEPT ![s] = Append(@, chunk)]
          /\ sessPc' = [sessPc EXCEPT ![s].relay =
                            IF JsonGet(chunk, "type") = "done"
                            THEN "ended" ELSE "loop"]
    /\ queues' = [queues EXCEPT ![sessRef[s].audio_queue] = Tail(@)]
    /\ UNCHANGED <<sessRef, buffers, sessEmitted, sessYielded, sessAudio>>
    /\ UNCHANGED notSessions

\* read loop of request s: the get times out, both threads of the request
\* are dead and its queue is empty: "break"
SessRelayIdle(s) ==
    /\ sessPc[s].relay = "loop"
    /\ queues[sessRef[s].audio_queue] = <<>>
    /\ sessPc[s].claude = "dead"
    /\ sessPc[s].fish = "dead"
    /\ sessPc' = [sessPc EXCEPT ![s].relay = "ended"]
    /\ UNCHANGED <<sessRef, buffers, queues, sessEmitted, sessYielded,
                   sessAudio, sessOut>>
    /\ UNCHANGED notSessions

\* No step of the single-session specification has been taken.
VoiceIdle ==
    /\ claudePc = "idle"
    /\ fishPc = "idle"
    /\ iterPc = "idle"
    /\ relayPc = "init"
    /\ bufq = <<>>
    /\ bufDone = FALSE
    /\ audioq = <<>>
    /\ text_chunk = None
    /\ full_text = ""
    /\ audio_chunk = <<>>
    /\ claudeErr = None
    /\ fishErr = None
    /\ out = <<>>
    /\ emitted = <<>>
    /\ pushed = <<>>
    /\ yielded = <<>>
    /\ enq = <<>>
    /\ nAudio = 0
    /\ iterStart = None

SessionsInit ==
    VoiceIdle /\ SessionsIdle /\ TextOnlyIdle /\ RenderIdle /\ SamplesIdle

SessionsNext ==
    \E s \in Sessions :
        \/ SessBegin(s)
        \/ SessChunk(s)
        \/ SessFinish(s)
        \/ SessIterGet(s)
        \/ SessIterEnd(s)
        \/ SessAudio(s)
        \/ SessDone(s)
        \/ SessFishFail(s)
        \/ SessRelayGet(s)
        \/ SessRelayIdle(s)

SessionsSpec == SessionsInit /\ [][SessionsNext]_sessionVars

-----------------------------------------------------------------------------
\* ask_text_only: the generator generate_text of one request to
\* /api/ask-text-only.  The generator runs only while the server pulls the
\* next line; at each yield it is suspended until the client reads on.

\* Bound of the text-only specification.
MaxTextDeltas == 3      \* deltas the language model emits for the request

\* the first pull: "with claude_client.messages.stream(...) as stream:"
\* opens the model stream
TextOnlyOpen ==
    /\ textPc = "new"
    /\ textPc' = "stream"
    /\ UNCHANGED <<textOut, textEmitted, textErr>>
    /\ UNCHANGED notTextOnly

\* "for text_chunk in stream.text_stream: yield json.dumps({'type': 'text',
\* 'content': text_chunk}) + '\n'"
TextOnlyChunk ==
    /\ textPc = "stream"
    /\ Len(textEmitted) < MaxTextDeltas
    /\ \E t \in Deltas :
        /\ textEmitted' = Append(textEmitted, t)
        /\ textOut' = Append(textOut, TextEvent(t))
    /\ textPc' = "yield_text"
    /\ UNCHANGED textErr
    /\ UNCHANGED notTextOnly

\* the client reads on: the generator is resumed after a 'text' line
TextOnlyResume ==
    /\ textPc = "yield_text"
    /\ textPc' = "stream"
    /\ UNCHANGED <<textOut, textEmitted, textErr>>
    /\ UNCHANGED notTextOnly

\* the model stream is exhausted, the with block exits: "yield
\* json.dumps({'type': 'done'}) + '\n'"
TextOnlyEnd ==
    /\ textPc = "stream"
    /\ textOut' = Append(textOut, DoneEvent)
    /\ textPc' = "yield_done"
    /\ UNCHANGED <<textEmitted, textErr>>
    /\ UNCHANGED notTextOnly

\* the model call raises, on opening the stream or while reading it:
\* "except Exception as e: yield json.dumps({'type': 'error', 'content':
\* str(e)}) + '\n'"
TextOnlyFail ==
    /\ textPc \in {"new", "stream"}
    /\ \E msg \in ClaudeErrors :
        /\ textErr' = msg
        /\ textOut' = Append(textOut, ClaudeErrorEvent(msg))
    /\ textPc' = "yield_error"
    /\ UNCHANGED textEmitted
    /\ UNCHANGED notTextOnly

\* A variant of the generator with the completion signal in a finally
\* clause: resumed after the 'error' line it yields 'done' as well.
TextOnlyReturn_DoneInFinally ==
    /\ textPc \in {"yield_done", "yield_error"}
    /\ IF textPc = "yield_error"
       THEN /\ textOut' = Append(textOut, DoneEvent)
            /\ textPc' = "yield_done"
       ELSE /\ textOut' = textOut
            /\ textPc' = "returned"
    /\ UNCHANGED <<textEmitted, textErr>>
    /\ UNCHANGED notTextOnly

\* the generator is resumed after its 'done' or 'error' line and returns
TextOnlyReturn ==
    /\ textPc \in {"yield_done", "yield_error"}
    /\ textPc' = "returned"
    /\ UNCHANGED <<textOut, textEmitted, textErr>>
    /\ UNCHANGED notTextOnly

\* the client disconnects: the generator is closed while suspended at a yield
TextOnlyDisconnect ==
    /\ textPc \in {"yield_text", "yield_done", "yield_error"}
    /\ textPc' = "closed"
    /\ UNCHANGED <<textOut, textEmitted, textErr>>
    /\ UNCHANGED notTextOnly

TextOnlyInit ==
    VoiceIdle /\ SessionsIdle /\ TextOnlyIdle /\ RenderIdle /\ SamplesIdle

TextOnlyNext ==
    \/ TextOnlyOpen
    \/ TextOnlyChunk
    \/ TextOnlyResume
    \/ TextOnlyEnd
    \/ TextOnlyFail
    \/ TextOnlyReturn
    \/ TextOnlyDisconnect

TextOnlySpec == TextOnlyInit /\ [][TextOnlyNext]_textOnlyVars

-----------------------------------------------------------------------------
\* backend_server.py, render_animation_video: one request to
\* /v1/video/rendering.  The handler writes the scene script, runs manim on
\* it inside "try: ... finally: remove the script", and returns; with
\* stream=true what it returns is the generator generate(), which the server
\* iterates after the handler has returned.

\* Bound of the render specification.
MaxProgress == 3        \* progress lines after which manim reports no more

\* "file_name = f"scene_{''.join(random.choices('0123456789abcdef', k=4))}.py""
SceneNames == {"scene_0a1b.py", "scene_ffff.py"}

\* "video_file_path = os.path.join(BASE_DIR, f"{file_class}.mp4")"
VideoFile == "GenScene.mp4"

\* The code of the request: data.get('code', '')
Codes == {"", "class GenScene(Scene): ..."}

\* What the two regular expressions find in a line of manim's stderr: the
\* group of 'Animation (\d+):' and the group of '(\d+)%', each field present
\* only when its expression matches.
StderrLines ==
    {[animation |-> 0, percentage |-> 0],
     [percentage |-> 50],
     [text |-> "INFO"]}

\* The lines generate() yields for one line of stderr: one for a match of
\* 'Animation (\d+):', with percentage 0, then one for a match of '(\d+)%'
ProgressLines(line, current_animation) ==
    LET animation == IF "animation" \in DOMAIN line THEN line.animation
                     ELSE current_animation
    IN (IF "animation" \in DOMAIN line
        THEN <<[animationIndex |-> animation, percentage |-> 0]>>
        ELSE <<>>)
       \o (IF "percentage" \in DOMAIN line
           THEN <<[animationIndex |-> animation,
                   percentage |-> line.percentage]>>
           ELSE <<>>)

\* "current_animation": -1 until an 'Animation' line was read, then the
\* index it gave (every line yielded after it carries that index)
CurrentAnimation ==
    IF rendered = <<>> THEN -1 ELSE rendered[Len(rendered)].animationIndex

\* the request arrives: "data = request.json", "if not code: return
\* jsonify({'error': 'Code is required'}), 400"
RenderArrive ==
    /\ renderPc = "new"
    /\ \E code \in Codes, st \in BOOLEAN :
        /\ stream' = st
        /\ IF code = ""
           THEN /\ rendered' = <<[status |-> 400, error |-> "Code is required"]>>
                /\ renderPc' = "returned"
           ELSE /\ rendered' = rendered
                /\ renderPc' = "write"
    /\ UNCHANGED <<file_path, files, returncode, launched, exitPath>>
    /\ UNCHANGED notRender

\* "file_path = os.path.join(BASE_DIR, file_name)", "with open(file_path,
\* 'w') as f: f.write(modified_code)"
RenderWrite ==
    /\ renderPc = "write"
    /\ \E name \in SceneNames :
        /\ file_path' = name
        /\ files' = files \cup {name}
    /\ renderPc' = "try"
    /\ UNCHANGED <<stream, returncode, launched, exitPath, rendered>>
    /\ UNCHANGED notRender

\* "if stream: ... return Response(generate(), content_type=
\* 'text/event-stream')": the generator object is created, not yet run, and
\* the handler leaves its try block
RenderReturnStream ==
    /\ renderPc = "try"
    /\ stream
    /\ exitPath' = "stream"
    /\ renderPc' = "finally"
    /\ UNCHANGED <<stream, file_path, files, returncode, launched, rendered>>
    /\ UNCHANGED notRender

\* "result = subprocess.run(command, ...)": manim is started on file_path and
\* runs to its end; it can succeed only on a script that exists, and a
\* successful run may or may not leave the video where the handler looks
RenderRun ==
    /\ renderPc = "try"
    /\ ~stream
    /\ launched' = IF file_path \in files THEN "present" ELSE "missing"
    /\ \E rc \in {0, 1}, video \in BOOLEAN :
        /\ rc = 0 => file_path \in files
        /\ video => rc = 0
        /\ returncode' = rc
        /\ files' = IF video THEN files \cup {VideoFile} ELSE files
    /\ renderPc' = "respond"
    /\ UNCHANGED <<stream, file_path, exitPath, rendered>>
    /\ UNCHANGED notRender

\* A variant of the handler whose cleanup follows the try block instead of
\* standing in a finally clause: an exception passes it by.
RenderRunRaise_NoFinally ==
    /\ renderPc = "try"
    /\ ~stream
    /\ exitPath' = "exception"
    /\ renderPc' = "except"
    /\ UNCHANGED <<stream, file_path, files, returncode, launched, rendered>>
    /\ UNCHANGED notRender

\* subprocess.run raises (manim cannot be launched): the handler leaves its
\* try block by the exception
RenderRunRaise ==
    /\ renderPc = "try"
    /\ ~stream
    /\ exitPath' = "exception"
    /\ renderPc' = "finally"
    /\ UNCHANGED <<stream, file_path, files, returncode, launched, rendered>>
    /\ UNCHANGED notRender

\* "if result.returncode == 0: ... if os.path.exists(video_file_path): return
\* jsonify(video_url) else: return 'Video file not found', 500 else: return
\* 'Rendering failed', 500"
RenderRespond ==
    /\ renderPc = "respond"
    /\ IF returncode = 0
       THEN IF VideoFile \in files
            THEN /\ rendered' = <<[status |-> 200, video_url |-> VideoFile]>>
                 /\ exitPath' = "success"
            ELSE /\ rendered' = <<[status |-> 500,
                                    error |-> "Video file not found"]>>
                 /\ exitPath' = "no_video"
       ELSE /\ rendered' = <<[status |-> 500, error |-> "Rendering failed"]>>
            /\ exitPath' = "failed"
    /\ renderPc' = "finally"
    /\ UNCHANGED <<stream, file_path, files, returncode, launched>>
    /\ UNCHANGED notRender

\* "finally: if os.path.exists(file_path): os.remove(file_path)"; the handler
\* then returns its response, or the exception reaches the outer except
RenderCleanup ==
    /\ renderPc = "finally"
    /\ files' = IF file_path \in files THEN files \ {file_path} ELSE files
    /\ renderPc' = IF exitPath = "stream" THEN "gen_new"
                   ELSE IF exitPath = "exception" THEN "except"
                   ELSE "returned"
    /\ UNCHANGED <<stream, file_path, returncode, launched, exitPath, rendered>>
    /\ UNCHANGED notRender

\* "except Exception as e: ... return jsonify({'error': str(e)}), 500"
RenderExcept ==
    /\ renderPc = "except"
    /\ rendered' = <<[status |-> 500, error |-> "manim: not found"]>>
    /\ renderPc' = "returned"
    /\ UNCHANGED <<stream, file_path, files, returncode, launched, exitPath>>
    /\ UNCHANGED notRender

\* the server starts to iterate generate(): "process = subprocess.Popen(
\* command, ...)" starts manim on file_path
GenPopen ==
    /\ renderPc = "gen_new"
    /\ launched' = IF file_path \in files THEN "present" ELSE "missing"
    /\ renderPc' = "gen_read"
    /\ UNCHANGED <<stream, file_path, files, returncode, exitPath, rendered>>
    /\ UNCHANGED notRender

\* subprocess.Popen raises inside the generator: the response is cut short
GenPopenRaise ==
    /\ renderPc = "gen_new"
    /\ renderPc' = "gen_raised"
    /\ UNCHANGED <<stream, file_path, files, returncode, launched, exitPath,
                   rendered>>
    /\ UNCHANGED notRender

\* "stderr_line = process.stderr.readline()" returns a line; the progress it
\* holds is yielded
GenLine ==
    /\ renderPc = "gen_read"
    /\ Len(rendered) < MaxProgress
    /\ \E line \in StderrLines :
        rendered' = rendered \o ProgressLines(line, CurrentAnimation)
    /\ UNCHANGED <<renderPc, stream, file_path, files, returncode, launched,
                   exitPath>>
    /\ UNCHANGED notRender

\* "if stderr_line == '' and process.poll() is not None: break": manim has
\* ended; it can have succeeded only on a script that existed when it started
GenExit ==
    /\ renderPc = "gen_read"
    /\ \E rc \in {0, 1}, video \in BOOLEAN :
        /\ rc = 0 => launched = "present"
        /\ video => rc = 0
        /\ returncode' = rc
        /\ files' = IF video THEN files \cup {VideoFile} ELSE files
    /\ renderPc' = "gen_result"
    /\ UNCHANGED <<stream, file_path, launched, exitPath, rendered>>
    /\ UNCHANGED notRender

\* "if process.returncode == 0: ... yield video_url / 'Video file not found'
\* else: yield 'Rendering failed'"; the generator returns
GenResult ==
    /\ renderPc = "gen_result"
    /\ rendered' = Append(rendered,
            IF returncode = 0
            THEN IF VideoFile \in files
                 THEN [video_url |-> VideoFile]
                 ELSE [error |-> "Video file not found"]
            ELSE [error |-> "Rendering failed"])
    /\ renderPc' = "gen_done"
    /\ UNCHANGED <<stream, file_path, files, returncode, launched, exitPath>>
    /\ UNCHANGED notRender

\* The request arrives at a server that may hold the video of an earlier
\* render of the same scene class.
RenderInit ==
    /\ VoiceIdle
    /\ SessionsIdle
    /\ TextOnlyIdle
    /\ SamplesIdle
    /\ renderPc = "new"
    /\ stream = FALSE
    /\ file_path = None
    /\ files \in SUBSET {VideoFile}
    /\ returncode = None
    /\ launched = None
    /\ exitPath = None
    /\ rendered = <<>>

RenderNext ==
    \/ RenderArrive
    \/ RenderWrite
    \/ RenderReturnStream
    \/ RenderRun
    \/ RenderRunRaise
    \/ RenderRespond
    \/ RenderCleanup
    \/ RenderExcept
    \/ GenPopen
    \/ GenPopenRaise
    \/ GenLine
    \/ GenExit
    \/ GenResult

RenderSpec == RenderInit /\ [][RenderNext]_renderVars

-----------------------------------------------------------------------------
\* The notes directory NOTES_DIR, shared by backend_server.py (create_class,
\* create_note) and api.py (list_samples, get_sample).  Names are sequences
\* of characters, so that formatting and splitting an id are computed.

\* The class names users submit to /api/create-class.
ClassInputs ==
    {<<"M", "a", "t", "h">>,
     <<"l", "i", "n", " ", "a", "l", "g">>,
     <<"c", "s", "_", "6", "1">>}

\* The lecture numbers users submit to /api/create-note.
LectureNums == {<<"1">>, <<"2">>}

\* str.lower() on the characters in use
Lower(name) == [i \in 1..Len(name) |-> IF name[i] = "M" THEN "m" ELSE name[i]]

\* str.replace(old, new) for single characters
Replace(name, old, new) ==
    [i \in 1..Len(name) |-> IF name[i] = old THEN new ELSE name[i]]

\* create_class: "class_name = data.get('class_name', '').lower().replace(
\* ' ', '_')", "class_dir.mkdir(exist_ok=True)"
CreateClass ==
    /\ \E input \in ClassInputs :
        LET class_name == Replace(Lower(input), " ", "_")
        IN /\ class_name # <<>>
           /\ class_dirs' = class_dirs \cup {class_name}
    /\ UNCHANGED <<html_files, samples, lecture>>
    /\ UNCHANGED notSamples

\* create_note: for a class directory that exists, txt_to_note.py writes
\* the lecture file l{lecture_num}.html into it
CreateNote ==
    /\ \E class_name \in class_dirs, lecture_num \in LectureNums :
        html_files' = html_files \cup {<<class_name, <<"l">> \o lecture_num>>}
    /\ UNCHANGED <<class_dirs, samples, lecture>>
    /\ UNCHANGED notSamples

\* list_samples: "id": f"{class_name}_{html_file.stem}"
SampleId(class_name, stem) == class_name \o <<"_">> \o stem

\* list_samples: one sample per lecture file of every class directory whose
\* name does not start with '.' (a class holds two lecture files at most
\* here, so the limit of three per class keeps them all)
ListSamples ==
    /\ samples' = {[id |-> SampleId(f[1], f[2]), className |-> f[1],
                     html_file |-> f] :
                        f \in {g \in html_files : g[1][1] # "."}}
    /\ UNCHANGED <<class_dirs, html_files, lecture>>
    /\ UNCHANGED notSamples

\* sample_id.split('_', 1)
SplitOnce(id) ==
    IF \E i \in 1..Len(id) : id[i] = "_"
    THEN LET k == CHOOSE i \in 1..Len(id) :
                    /\ id[i] = "_"
                    /\ \A j \in 1..(i - 1) : id[j] # "_"
         IN <<SubSeq(id, 1, k - 1), SubSeq(id, k + 1, Len(id))>>
    ELSE <<id>>

\* get_sample for the id of a listed sample: "parts = sample_id.split('_',
\* 1)", 400 unless two parts, "html_file = NOTES_DIR / class_name /
\* f"{file_stem}.html"", 404 unless it exists, else the lecture
GetSample ==
    /\ \E sample \in samples :
        LET parts == SplitOnce(sample.id)
        IN lecture' =
            IF Len(parts) # 2
            THEN [status |-> 400, asked |-> sample]
            ELSE IF <<parts[1], parts[2]>> \notin html_files
                 THEN [status |-> 404, asked |-> sample,
                       html_file |-> <<parts[1], parts[2]>>]
                 ELSE [status |-> 200, asked |-> sample,
                       html_file |-> <<parts[1], parts[2]>>]
    /\ UNCHANGED <<class_dirs, html_files, samples>>
    /\ UNCHANGED notSamples

SamplesInit ==
    VoiceIdle /\ SessionsIdle /\ TextOnlyIdle /\ RenderIdle /\ SamplesIdle

SamplesNext ==
    \/ CreateClass
    \/ CreateNote
    \/ ListSamples
    \/ GetSample

SamplesSpec == SamplesInit /\ [][SamplesNext]_sampleVars

-----------------------------------------------------------------------------
\* Vocabulary of the properties.

NonEmpty(seq) == SelectSeq(seq, LAMBDA t : t # "")

TypeOf(line) == JsonGet(line, "type")

ContentOf(line) == JsonGet(line, "content")

LinesOfType(seq, t) == SelectSeq(seq, LAMBDA l : TypeOf(l) = t)

RECURSIVE Contents(_)
Contents(seq) ==
    IF seq = <<>> THEN <<>>
    ELSE <<ContentOf(Head(seq))>> \o Contents(Tail(seq))

TextContents(seq) == Contents(LinesOfType(seq, "text"))

Occurrences(seq, line) == Cardinality({i \in 1..Len(seq) : seq[i] = line})

IsPrefix(s, t) == Len(s) <= Len(t) /\ s = SubSeq(t, 1, Len(s))

HasDone(seq) == \E i \in 1..Len(seq) : TypeOf(seq[i]) = "done"

IterRunning == iterPc \in {"check", "check_empty", "get", "empty"}

RelayOver == relayPc \in {"ended", "closed"}

-----------------------------------------------------------------------------
\* C1: with the producer adding and finishing while the consumer iterates,
\* when the iteration terminates every fragment that was added has been
\* yielded and none is left in the buffer.
CEx_C1 == iterPc = "ended" => (bufq = <<>> /\ yielded = pushed)

\* C2 as stated: when N fragments are pushed with add(), the buffer is closed
\* and the buffer is then iterated, the iteration yields exactly those N
\* fragments, in push order, and terminates.
CEx_C2 == (iterStart = "closed" /\ iterPc = "ended") => yielded = emitted

\* C2 as amended: the iteration of a buffer that was filled and closed before
\* it began yields exactly the non-empty fragments among those passed to
\* add(), in push order, leaves the buffer empty, and terminates.
Thm_C2 ==
    /\ [](iterStart = "closed" /\ iterPc = "ended"
            => yielded = NonEmpty(emitted) /\ bufq = <<>>)
    /\ [](iterStart = "closed" /\ IterRunning /\ bufq = <<>>
            => yielded = NonEmpty(emitted))
    /\ (iterStart = "closed" ~> ~IterRunning)

Wit_C2 ==
    /\ iterStart = "closed"
    /\ iterPc = "ended"
    /\ Len(yielded) >= 2
    /\ yielded = emitted

CEx_C4 ==
    (relayPc = "ended" /\ claudeErr # None)
        => /\ TextContents(out) = emitted
           /\ Occurrences(out, ClaudeErrorEvent(claudeErr)) = 1

\* C5: a vendor call that never returns cannot stall the session: once a
\* producer hangs the read loop still eventually terminates.
CEx_C5 == (claudePc = "hung" \/ fishPc = "hung") ~> RelayOver

\* C6: on any failure of the language-model call the Text Producer closes the
\* Token Buffer and enqueues one 'error' event carrying the failure message,
\* the buffer being closed before the event is enqueued, so that the
\* iteration of the buffer does not stay blocked.
Thm_C6 ==
    /\ [](claudeErr # None /\ claudePc = "dead"
            => /\ bufDone
               /\ Occurrences(enq, ClaudeErrorEvent(claudeErr)) = 1
               /\ Len(LinesOfType(enq, "error"))
                    = 1 + (IF fishPc = "dead" /\ fishErr # None THEN 1 ELSE 0))
    /\ [](claudePc = "exc_put" => bufDone)
    /\ [](claudeErr # None => <>[](~IterRunning))

Wit_C6 ==
    /\ claudeErr # None
    /\ claudePc = "dead"
    /\ iterStart = "open"
    /\ iterPc = "ended"
    /\ Len(emitted) >= 1

\* The Speech Producer failed when opening its session: it caught a failure
\* and the SDK never began to read the Token Buffer.
FishOpenFailed == fishErr # None /\ iterPc = "idle"

\* The 'error' lines whose content starts with the prefix "TTS Error: ".
TtsPrefixed(m) == JsonDumps([type |-> "error", content |-> "TTS Error: " \o m])

TtsErrorLines == {TtsPrefixed(m) : m \in FishErrors}

\* C7: if the Speech Producer fails when opening its session, no 'audio'
\* event is ever enqueued, the stream delivered when the read loop ends holds
\* exactly one 'error' event with the 'TTS Error: ' prefix, whose content is
\* the prefixed failure message, and the read loop ends once the Text
\* Producer has finished too.
Thm_C7 ==
    /\ [](FishOpenFailed => LinesOfType(enq, "audio") = <<>>)
    /\ [](FishOpenFailed /\ relayPc = "ended"
            => /\ LinesOfType(out, "audio") = <<>>
               /\ Occurrences(out, TtsPrefixed(fishErr)) = 1
               /\ Cardinality({i \in 1..Len(out) : out[i] \in TtsErrorLines}) = 1
               /\ TextContents(out) = emitted)
    /\ ((FishOpenFailed /\ claudePc = "dead") ~> RelayOver)

Wit_C7 ==
    /\ FishOpenFailed
    /\ relayPc = "ended"
    /\ claudePc = "dead"
    /\ Len(TextContents(out)) >= 1

\* C8, the Speech Producer's half: after a Text Producer failure the Speech
\* Producer's iteration, when it ends, has drained every buffered fragment.
DrainsAfterTextFailure ==
    (claudeErr # None /\ iterPc = "ended") => (yielded = pushed /\ bufq = <<>>)

\* C8, the Text Producer's half: after a Speech Producer failure every delta
\* is still enqueued as a 'text' event and, when the read loop ends, delivered.
TextAfterSpeechFailure ==
    /\ (fishErr # None /\ claudePc \in {"stream", "finish", "exc_finish",
                                        "exc_put", "dead", "hung"})
          => TextContents(enq) = emitted
    /\ (fishErr # None /\ relayPc = "ended") => TextContents(out) = emitted

\* C8: a failure of one producer does not stop the other.
CEx_C8 == DrainsAfterTextFailure /\ TextAfterSpeechFailure

LoopPcs == {"get", "yield", "empty", "check_empty"}

BothFinished == ~IsAlive(claudePc) /\ ~IsAlive(fishPc)

\* C9: when the read loop is left with both producers finished, every queued
\* event has been delivered; and the loop is not left on an empty queue while
\* a producer is still running.
CEx_C9 ==
    [][(relayPc \in LoopPcs /\ relayPc' = "join_claude")
        => /\ (BothFinished => audioq = <<>>)
           /\ (relayPc = "check_empty" => BothFinished)]_vars

\* C10 as stated: between two deltas, the fragments pushed to the Token
\* Buffer and the contents of the 'text' events enqueued are the same
\* sequence.
CEx_C10 ==
    claudePc \notin {"add", "put"} => pushed = TextContents(enq)

\* C10 as amended: every delta is enqueued as a 'text' event; the fragments
\* pushed to the Token Buffer are the contents of those 'text' events with
\* the empty ones removed, in the same order; and the Speech Producer is
\* handed, through the iterator, a prefix of the pushed fragments.
Thm_C10 ==
    /\ claudePc \notin {"add", "put"} => TextContents(enq) = emitted
    /\ claudePc # "put" => pushed = NonEmpty(TextContents(enq))
    /\ claudePc = "put"
         => pushed = NonEmpty(TextContents(enq) \o <<text_chunk>>)
    /\ IsPrefix(yielded, pushed)
    /\ pushed = yielded \o bufq

Wit_C10 ==
    /\ claudePc = "dead"
    /\ Len(emitted) >= 2
    /\ \E i \in 1..Len(emitted) : emitted[i] = ""
    /\ \E i \in 1..Len(emitted) : emitted[i] # ""
    /\ yielded = pushed
    /\ Len(pushed) >= 1

\* C11: fragment order is preserved end to end: at every moment the
\* fragments the iterator has yielded are, in order, the first non-empty
\* deltas the model emitted, and the contents of the 'text' events delivered
\* to the client are, in order, the first deltas the model emitted.
Thm_C11 ==
    /\ IsPrefix(yielded, NonEmpty(emitted))
    /\ IsPrefix(TextContents(out), emitted)

Wit_C11 ==
    /\ yielded = <<"Hello", " world">>
    /\ TextContents(out) = <<"Hello", " world">>
    /\ LinesOfType(out, "audio") # <<>>

\* C12: the lines delivered to the client are always a prefix of the lines
\* enqueued, in enqueue order: what was enqueued is what was delivered
\* followed by what is still queued.
Thm_C12 ==
    /\ IsPrefix(out, enq)
    /\ enq = out \o audioq

Wit_C12 ==
    /\ Len(out) >= 3
    /\ TypeOf(out[1]) = "audio"
    /\ TypeOf(out[2]) = "text"
    /\ audioq # <<>>

\* C13: a session in which neither producer failed, once the read loop has
\* ended, has delivered exactly one 'text' event per delta, in delta order,
\* exactly one 'audio' event per audio chunk received, holding the base64
\* text of the chunk ("AQI=" for the bytes 1, 2), exactly one 'done' event,
\* and nothing else.
Thm_C13 ==
    (relayPc = "ended" /\ claudeErr = None /\ fishErr = None)
        => /\ TextContents(out) = emitted
           /\ Contents(LinesOfType(out, "audio")) = [i \in 1..nAudio |-> "AQI="]
           /\ Len(LinesOfType(out, "done")) = 1
           /\ LinesOfType(out, "error") = <<>>
           /\ Len(out) = Len(emitted) + nAudio + 1
           /\ audioq = <<>>

Wit_C13 ==
    /\ relayPc = "ended"
    /\ claudeErr = None
    /\ fishErr = None
    /\ emitted = <<"Hello", " world">>
    /\ nAudio = 1
    /\ TypeOf(out[2]) = "audio"

\* C14: at most one 'done' event is enqueued in a session; it is enqueued
\* only when the audio stream has completed without failure, after the
\* iteration of the Token Buffer has ended; and a 'done' event delivered to
\* the client is the last line delivered.
Thm_C14 ==
    /\ Len(LinesOfType(enq, "done")) <= 1
    /\ HasDone(enq) => (fishPc = "dead" /\ fishErr = None /\ iterPc = "ended")
    /\ \A i \in 1..Len(out) : TypeOf(out[i]) = "done" => i = Len(out)

Wit_C14 ==
    /\ relayPc = "ended"
    /\ HasDone(out)
    /\ audioq # <<>>

\* C15: after the client has disconnected both producers stop: from then on
\* no further fragment is pushed to the Token Buffer and no further event is
\* enqueued.
CEx_C15 ==
    [][relayPc = "closed" => (pushed' = pushed /\ enq' = enq)]_vars

\* C16: when finish() has been called on a Token Buffer into which no
\* fragment was pushed, the iteration yields nothing and ends: its next test
\* of the loop condition, or its handler of a timed-out get, leaves the loop
\* at once, and under fair scheduling the iteration does end.
Thm_C16 ==
    /\ []((bufDone /\ pushed = <<>>) => (yielded = <<>> /\ bufq = <<>>))
    /\ [][(bufDone /\ pushed = <<>> /\ iterPc \in {"check_empty", "empty"})
            => iterPc' \in {iterPc, "ended", "abandoned"}]_vars
    /\ ((bufDone /\ pushed = <<>> /\ IterRunning) ~> ~IterRunning)

Wit_C16 ==
    /\ bufDone
    /\ pushed = <<>>
    /\ iterPc = "ended"
    /\ yielded = <<>>

\* C17: the iteration never ends while finish() has not been called: it is
\* ended only with the buffer closed, and a get that timed out on a buffer
\* not yet closed sends the consumer back to waiting.
Thm_C17 ==
    /\ [](iterPc = "ended" => bufDone)
    /\ [][(iterPc = "empty" /\ ~bufDone) => iterPc' # "ended"]_vars

Wit_C17 ==
    /\ iterPc = "ended"
    /\ iterStart = "open"
    /\ Len(yielded) >= 1

\* C18: the Text Producer never waits for the consumer of the Outbound
\* Multiplexer: whenever it is about to push a fragment, enqueue a 'text' or
\* 'error' event or close the buffer, that step can be taken at once,
\* whatever the read loop has or has not consumed, also when the read loop
\* has stopped for good.
Thm_C18 ==
    /\ claudePc = "add" => ENABLED ClaudeAdd
    /\ claudePc = "put" => ENABLED ClaudePutText
    /\ claudePc = "finish" => ENABLED ClaudeFinish
    /\ claudePc = "exc_finish" => ENABLED ClaudeExcFinish
    /\ claudePc = "exc_put" => ENABLED ClaudeExcPut

Wit_C18 ==
    /\ relayPc \in {"ended", "closed"}
    /\ claudePc = "put"
    /\ Len(audioq) >= 1

\* C19: whenever the relay session has ended, that is from the moment the
\* read loop has stopped emitting, the Outbound Multiplexer's queue is empty
\* and both producers have finished.
CEx_C19 ==
    relayPc \in {"join_claude", "join_fish", "ended"}
        => (audioq = <<>> /\ BothFinished)

\* C20 as stated: every line enqueued for the outbound stream is an event
\* with a "type" among text, audio, error, done and a string "content"
\* field, whatever its type.
CEx_C20 ==
    \A i \in 1..Len(enq) :
        /\ TypeOf(enq[i]) \in EventTypes
        /\ "content" \in DOMAIN JsonLoads(enq[i])

\* C20 as amended: every line enqueued for the outbound stream is an event
\* with a "type" among text, audio, error, done; a 'text', 'audio' or
\* 'error' line has a string "content" field (the delta, the base64 text of
\* the chunk, the failure message), and a 'done' line has the "type" field
\* only.
Thm_C20 ==
    \A i \in 1..Len(enq) :
        LET obj == JsonLoads(enq[i])
        IN /\ JsonDumps(obj) = enq[i]
           /\ obj.type \in EventTypes
           /\ obj.type = "done" => DOMAIN obj = {"type"}
           /\ obj.type # "done"
                => /\ DOMAIN obj = {"type", "content"}
                   /\ obj.content \in EventContents
           /\ obj.type = "text" => obj.content \in Deltas
           /\ obj.type = "audio"
                => obj.content \in {B64Encode(c) : c \in AudioChunks}

Wit_C20 ==
    /\ Len(LinesOfType(enq, "text")) >= 1
    /\ Len(LinesOfType(enq, "audio")) >= 1
    /\ Len(LinesOfType(enq, "error")) >= 1
    /\ Len(LinesOfType(enq, "done")) >= 1

\* The read loop has been left: the generator is at or past its joins.
LoopLeft == relayPc \in {"join_claude", "join_fish", "ended"}

SpeechCompleted == fishPc = "dead" /\ fishErr = None

\* C21: a 'done' event is in the outbound stream if and only if the Speech
\* Producer completed without failure: 'done' is enqueued exactly when the
\* Speech Producer has returned without a failure, whatever became of the
\* Text Producer; it is then delivered unless the client disconnects; and
\* once the read loop has been left the delivered stream holds 'done'
\* exactly when the Speech Producer completed without failure.
Thm_C21 ==
    /\ [](HasDone(enq) <=> SpeechCompleted)
    /\ [](LoopLeft => (HasDone(out) <=> SpeechCompleted))
    /\ [](LoopLeft /\ claudeErr # None /\ fishErr = None => HasDone(out))
    /\ (SpeechCompleted ~> (HasDone(out) \/ relayPc = "closed"))

Wit_C21 ==
    /\ relayPc = "ended"
    /\ claudeErr # None
    /\ SpeechCompleted
    /\ HasDone(out)
    /\ Len(LinesOfType(out, "error")) = 1

\* C22: on a timeout of the read loop's poll, the loop is left if and only if
\* both producer threads have terminated and the queue is empty: the handler
\* goes on to test the queue exactly when both threads are dead, otherwise it
\* polls again; and from the test of the queue it leaves the loop exactly
\* when the queue is empty, otherwise it polls again.
Thm_C22 ==
    /\ [](relayPc = "check_empty" => BothFinished)
    /\ [][(relayPc = "empty" /\ relayPc' # "empty")
            => /\ relayPc' \in {"check_empty", "get"}
               /\ relayPc' = "check_empty" <=> BothFinished]_vars
    /\ [][(relayPc = "check_empty" /\ relayPc' # "check_empty")
            => /\ relayPc' \in {"join_claude", "get"}
               /\ relayPc' = "join_claude"
                    <=> (BothFinished /\ audioq = <<>>)]_vars
    /\ [][(relayPc \in {"get", "empty"} /\ relayPc' # relayPc)
            => relayPc' # "join_claude"]_vars

Wit_C22 ==
    /\ relayPc = "ended"
    /\ ~HasDone(out)
    /\ Len(out) >= 2
    /\ audioq = <<>>

\* C23: once the Token Buffer has been closed and the fragments buffered in
\* it drained, the Speech Producer eventually terminates, provided the speech
\* call does not hang; and a Speech Producer that has terminated has enqueued
\* either 'done' or its 'error' event, the last thing it did.
Thm_C23 ==
    /\ [](fishPc # "hung") => ((bufDone /\ bufq = <<>>) ~> fishPc = "dead")
    /\ [](fishPc = "dead"
            => \/ fishErr = None /\ HasDone(enq)
               \/ fishErr # None /\ Occurrences(enq, TtsPrefixed(fishErr)) = 1)

Wit_C23 ==
    /\ bufDone
    /\ bufq = <<>>
    /\ fishPc = "dead"
    /\ iterStart = "open"
    /\ Len(yielded) >= 1
    /\ HasDone(enq)

\* The read loop was left through the timeout check: it has been left and no
\* 'done' event was delivered.
LeftOnTimeout == LoopLeft /\ ~HasDone(out)

\* C24: if the read loop is left through the timeout check, every event
\* either producer ever enqueues in the session has been delivered: at the
\* moment of leaving and ever after, both threads have returned, nothing is
\* left in the queue, the delivered lines are all the enqueued lines, and
\* nothing is enqueued afterwards.
Thm_C24 ==
    /\ [][(relayPc = "check_empty" /\ relayPc' = "join_claude")
            => (audioq = <<>> /\ out = enq /\ ~HasDone(out))]_vars
    /\ [](LeftOnTimeout
            => /\ claudePc = "dead" /\ fishPc = "dead"
               /\ audioq = <<>>
               /\ out = enq)
    /\ [][LeftOnTimeout => (enq' = enq /\ out' = out)]_vars

Wit_C24 ==
    /\ relayPc = "ended"
    /\ ~HasDone(out)
    /\ Len(LinesOfType(out, "error")) = 2
    /\ Len(LinesOfType(out, "text")) >= 1

\* The number of empty strings in a sequence of strings.
Empties(seq) == Cardinality({i \in 1..Len(seq) : seq[i] = ""})

\* The per-chunk body of stream_claude is not in progress.
BetweenChunks == claudePc \notin {"add", "put"}

\* C25: the fragments put into the Token Buffer for the Speech Producer are
\* exactly the contents of the 'text' events with the empty ones removed:
\* after each per-chunk body there is one 'text' event per delta, the empty
\* deltas included, the buffer was given those contents less the empty ones
\* in the same order, and no empty fragment is ever in the buffer or handed
\* to the Speech Producer.
Thm_C25 ==
    /\ BetweenChunks
         => /\ pushed = NonEmpty(TextContents(enq))
            /\ Len(TextContents(enq)) = Len(pushed) + Empties(emitted)
            /\ Occurrences(enq, TextEvent("")) = Empties(emitted)
    /\ Empties(pushed) = 0
    /\ Empties(bufq) = 0
    /\ Empties(yielded) = 0

Wit_C25 ==
    /\ BetweenChunks
    /\ emitted = <<"", "Hello">>
    /\ TextContents(enq) = <<"", "Hello">>
    /\ pushed = <<"Hello">>
    /\ yielded = <<"Hello">>

\* Request s has begun: its generator has created its objects.
Begun(s) == sessPc[s].relay # "new"

\* The 'text' contents of a sequence of lines all belong to the answer to
\* request s.
OnlyAnswerOf(s, seq) == \A i \in 1..Len(seq) : seq[i] \in AnswerDeltas(s)

\* C26: two concurrent voice sessions each have a Token Buffer and an
\* Outbound Multiplexer of their own: the objects of two sessions that have
\* begun are different objects; the fragments a session's iterator yields
\* and the 'text' events its stream delivers are that session's deltas, in
\* order, and its 'audio' events no more than its own speech call produced;
\* a session's iteration ends only when its own Text Producer has closed the
\* buffer, and its read loop ends only when its own Speech Producer has
\* returned; and a step that closes one session's buffer or delivers one
\* session's 'done' changes nothing of the other session.
Thm_C26 ==
    /\ [](\A s, t \in Sessions :
            (s # t /\ Begun(s) /\ Begun(t))
                => /\ sessRef[s].text_buffer # sessRef[t].text_buffer
                   /\ sessRef[s].audio_queue # sessRef[t].audio_queue)
    /\ [](\A s \in Sessions :
            /\ OnlyAnswerOf(s, sessYielded[s])
            /\ OnlyAnswerOf(s, TextContents(sessOut[s]))
            /\ IsPrefix(sessYielded[s], sessEmitted[s])
            /\ IsPrefix(TextContents(sessOut[s]), sessEmitted[s])
            /\ Len(LinesOfType(sessOut[s], "audio")) <= sessAudio[s]
            /\ Len(LinesOfType(sessOut[s], "done")) <= 1)
    /\ [](\A s \in Sessions :
            /\ sessPc[s].iter = "ended" => sessPc[s].claude = "dead"
            /\ sessPc[s].relay = "ended" => sessPc[s].fish = "dead")
    /\ [][\A s, t \in Sessions :
            (s # t /\ sessPc'[s] # sessPc[s])
                => /\ sessPc'[t] = sessPc[t]
                   /\ sessOut'[t] = sessOut[t]
                   /\ sessYielded'[t] = sessYielded[t]]_sessionVars

Wit_C26 ==
    /\ sessPc[1].relay = "ended"
    /\ HasDone(sessOut[1])
    /\ TextContents(sessOut[1]) = <<"Hello", "Hello">>
    /\ sessPc[2].relay = "loop"
    /\ sessPc[2].claude = "stream"
    /\ sessPc[2].iter = "running"
    /\ sessYielded[2] = <<" world">>
    /\ TextContents(sessOut[2]) = <<" world">>

\* The 'text' lines of a sequence of deltas, one line per delta.
TextLines(deltas) == [i \in 1..Len(deltas) |-> TextEvent(deltas[i])]

\* The lines of a sequence that end a stream: 'done' and 'error'.
TerminalLines(seq) ==
    SelectSeq(seq, LAMBDA l : TypeOf(l) \in {"done", "error"})

\* C27: the stream of the text-only pathway is the 'text' events in model
\* order followed, once the generator has got that far, by exactly one
\* terminal event: at every moment the stream holds one 'text' line per
\* delta emitted, in order, and at most one terminal line, which is its last
\* line; when the generator has returned the stream is those 'text' lines
\* followed by 'done' if the model stream completed and by the 'error' line
\* of the failure if it failed, never both; and no audio line.
Thm_C27 ==
    /\ TextContents(textOut) = textEmitted
    /\ LinesOfType(textOut, "audio") = <<>>
    /\ Len(TerminalLines(textOut)) <= 1
    /\ \A i \in 1..Len(textOut) :
          TypeOf(textOut[i]) \in {"done", "error"} => i = Len(textOut)
    /\ textPc \in {"yield_done", "yield_error", "returned"}
         => /\ textErr = None
                 => textOut = TextLines(textEmitted) \o <<DoneEvent>>
            /\ textErr # None
                 => textOut = TextLines(textEmitted)
                              \o <<JsonDumps([type |-> "error",
                                              content |-> textErr])>>
    /\ textPc \in {"new", "stream", "yield_text"}
         => textOut = TextLines(textEmitted)

Wit_C27 ==
    /\ textPc = "returned"
    /\ textErr # None
    /\ Len(textEmitted) = 2
    /\ textEmitted[1] = "Hello"
    /\ Len(textOut) = 3

\* C28: in /v1/video/rendering the scene script written for the request
\* still exists at the moment manim is started for it, with stream false and
\* with stream true.
CEx_C28 == launched # "missing"

\* The positions of render_animation_video inside its try block.
InTry == {"try", "respond"}

\* The handler has left its try block and run its finally clause.
PastFinally == renderPc \notin {"new", "write", "finally"} \cup InTry

\* C29: the scene script written for the request is removed on every path
\* by which the handler leaves its try block: whenever the handler has
\* written the script and run past its finally clause (on a successful
\* render, a failed render, a missing video file, an exception on launching
\* manim, or the return of the streaming response) the script is no longer
\* in BASE_DIR, and it is never written again.
Thm_C29 ==
    /\ (PastFinally /\ file_path # None) => file_path \notin files
    /\ (PastFinally /\ file_path # None)
         => exitPath \in {"success", "failed", "no_video", "exception",
                          "stream"}
    /\ renderPc \in InTry => file_path \in files
    /\ exitPath # None => renderPc \notin {"new", "write"} \cup InTry

Wit_C29 ==
    /\ renderPc = "returned"
    /\ exitPath = "exception"
    /\ file_path \in SceneNames
    /\ file_path \notin files
    /\ rendered # <<>>

\* C30: sample ids round-trip: asking for a listed sample by its id finds
\* the lecture file the sample was listed for, in the same class directory,
\* whatever the name of the class directory.
CEx_C30 ==
    lecture.status # 0
        => /\ lecture.status = 200
           /\ lecture.html_file = lecture.asked.html_file

====
